---- MODULE Spec2Model ----
(***************************************************************************)
(* Model of the two region extractors of shapeplotr:                       *)
(*   extract_db_region.py   slices the sequence and the structure of a     *)
(*                          .db file by a 1-based inclusive range;         *)
(*   extract_wig_region.py  parses a variableStep .wig file into a table   *)
(*                          and lists the values of a range of positions.  *)
(* Text is modelled as sequences of one-character strings, so that strip,  *)
(* split, startswith, int and float act on characters as the code does.    *)
(* Float values are held in thousandths (0.88 is 880); every value the     *)
(* model reads lies on that grid.                                          *)
(***************************************************************************)
EXTENDS Integers, Sequences, FiniteSets, TLC

VARIABLES
    db_pc,          \* position of extract_db_region.main
    db_exists,      \* whether open(file_path) succeeds
    db_lines,       \* f.readlines() of the .db file
    db_start,       \* args.start
    db_end,         \* args.end
    db_seq,         \* seq, as returned by extract_region_from_db
    db_struct,      \* struct, as returned by extract_region_from_db
    db_exc,         \* the exception in flight or caught (type "" when none)
    db_out,         \* lines written to stdout by extract_db_region.main
    wig_pc,         \* position of extract_wig_region.main
    wig_exists,     \* whether open(file_path) succeeds
    wig_lines,      \* f.readlines() of the .wig file
    wig_start,      \* args.start
    wig_end,        \* args.end
    wig_i,          \* number of lines the loop of parse_wig has consumed
    reactivities,   \* the dict built by parse_wig
    region_vals,    \* the list returned by extract_region
    wig_k,          \* number of values main has printed
    wig_exc,        \* the uncaught exception (type "" when none)
    wig_out         \* lines written to stdout by extract_wig_region.main

dbvars == <<db_pc, db_exists, db_lines, db_start, db_end, db_seq, db_struct,
            db_exc, db_out>>

wigvars == <<wig_pc, wig_exists, wig_lines, wig_start, wig_end, wig_i,
             reactivities, region_vals, wig_k, wig_exc, wig_out>>

vars == <<dbvars, wigvars>>

(***************************************************************************)
(* Bounds of the model.                                                    *)
(***************************************************************************)
MaxDbLines == 4
MaxDbCoord == 4
MaxWigLines == 3
MaxWigCoord == 2

(***************************************************************************)
(* Python text primitives.                                                 *)
(***************************************************************************)
Whitespace == {" ", "\t", "\n", "\r"}

RECURSIVE Str(_)
Str(cs) == IF cs = <<>> THEN "" ELSE Head(cs) \o Str(Tail(cs))

\* s.lstrip()
RECURSIVE LStrip(_)
LStrip(s) ==
    IF s # <<>> /\ Head(s) \in Whitespace THEN LStrip(Tail(s)) ELSE s

\* s.rstrip()
RECURSIVE RStrip(_)
RStrip(s) ==
    IF s # <<>> /\ s[Len(s)] \in Whitespace
    THEN RStrip(SubSeq(s, 1, Len(s) - 1))
    ELSE s

\* s.strip()
Strip(s) == RStrip(LStrip(s))

Max(a, b) == IF a >= b THEN a ELSE b

Min(a, b) == IF a <= b THEN a ELSE b

\* a 0-based slice bound i of a sequence of length n, as s[i:...] resolves it
SliceIndex(i, n) == IF i < 0 THEN Max(i + n, 0) ELSE Min(i, n)

\* s[i:j]
PySlice(s, i, j) ==
    LET lo == SliceIndex(i, Len(s))
        hi == SliceIndex(j, Len(s))
    IN  IF lo < hi THEN SubSeq(s, lo + 1, hi) ELSE <<>>

NoExc == [type |-> "", msg |-> ""]

\* what f.readlines() can return: every line but the last ends with "\n"
IsReadlines(lines) ==
    \A i \in 1..(Len(lines) - 1) : lines[i][Len(lines[i])] = "\n"

(***************************************************************************)
(* extract_db_region.py                                                    *)
(***************************************************************************)
DbPath == "region.db"

OpenError(path) ==
    [type |-> "FileNotFoundError",
     msg |-> "[Errno 2] No such file or directory: '" \o path \o "'"]

\* the message without the ">" of ">header"
ShortFileErrorPlain ==
    [type |-> "ValueError",
     msg |-> "File must have at least three lines: header, sequence, and structure."]

ShortFileError ==
    [type |-> "ValueError",
     msg |-> "File must have at least three lines: >header, sequence, and structure."]

EndError(end, len) ==
    [type |-> "ValueError",
     msg |-> "End position " \o ToString(end)
             \o " exceeds sequence length " \o ToString(len) \o "."]

DbRaise(e) == [kind |-> "raise", exc |-> e, sub_seq |-> <<>>, sub_struct |-> <<>>]

DbReturn(s, t) == [kind |-> "return", exc |-> NoExc, sub_seq |-> s, sub_struct |-> t]

\* the bound compared with the length of the unstripped line
EndExceedsRawLine(end, sequence) == end > Len(sequence) + 1

EndExceeds(end, sequence) == end > Len(sequence)

StartIdx(start) == start - 1

\* the end taken as an exclusive 1-based bound
EndIdxExclusive(end) == end - 1

EndIdx(end) == end

extract_region_from_db(exists, lines, start, end) ==
    IF ~exists THEN DbRaise(OpenError(DbPath))
    ELSE IF Len(lines) < 3 THEN DbRaise(ShortFileError)
    ELSE LET sequence == Strip(lines[2])
             structure == Strip(lines[3])
         IN  IF EndExceeds(end, sequence)
             THEN DbRaise(EndError(end, Len(sequence)))
             ELSE LET start_idx == StartIdx(start)
                      end_idx == EndIdx(end)
                  IN  DbReturn(PySlice(sequence, start_idx, end_idx),
                               PySlice(structure, start_idx, end_idx))

\* a handler that catches ValueError only
CatchesValueError(e) == e.type = "ValueError"

\* "except Exception" catches every exception extraction can raise
Catches(e) == e.type \in {"ValueError", "FileNotFoundError"}

\* the lines a .db file of the model is made of
DbLinePool ==
    { <<">", "s", "\n">>,
      <<"G", "A", "C", "\n">>,
      <<"(", ".", ")", "\n">>,
      <<" ", "G", "A", " ", "\n">>,
      <<"(", ")">> }

DbFiles ==
    { f \in UNION { [1..n -> DbLinePool] : n \in 0..MaxDbLines } : IsReadlines(f) }

DbCoords == (-1)..MaxDbCoord

WigIdle ==
    /\ wig_pc = "idle"
    /\ wig_exists = FALSE
    /\ wig_lines = <<>>
    /\ wig_start = 0
    /\ wig_end = 0
    /\ wig_i = 0
    /\ reactivities = <<>>
    /\ region_vals = <<>>
    /\ wig_k = 0
    /\ wig_exc = NoExc
    /\ wig_out = <<>>

InitDb ==
    /\ db_pc = "call"
    /\ db_exists \in BOOLEAN
    /\ db_lines \in DbFiles
    /\ db_exists = FALSE => db_lines = <<>>
    /\ db_start \in DbCoords
    /\ db_end \in DbCoords
    /\ db_seq = <<>>
    /\ db_struct = <<>>
    /\ db_exc = NoExc
    /\ db_out = <<>>
    /\ WigIdle

\* seq, struct = extract_region_from_db(args.file, args.start, args.end)
DbCall ==
    /\ db_pc = "call"
    /\ LET r == extract_region_from_db(db_exists, db_lines, db_start, db_end)
       IN  IF r.kind = "return"
           THEN /\ db_seq' = r.sub_seq
                /\ db_struct' = r.sub_struct
                /\ db_exc' = NoExc
                /\ db_pc' = "print_header"
           ELSE /\ db_exc' = r.exc
                /\ db_pc' = IF Catches(r.exc) THEN "except" ELSE "uncaught"
                /\ UNCHANGED <<db_seq, db_struct>>
    /\ UNCHANGED <<db_exists, db_lines, db_start, db_end, db_out>>
    /\ UNCHANGED wigvars

\* print(">subsequence")
DbPrintHeader ==
    /\ db_pc = "print_header"
    /\ db_out' = Append(db_out, ">subsequence")
    /\ db_pc' = "print_seq"
    /\ UNCHANGED <<db_exists, db_lines, db_start, db_end, db_seq, db_struct, db_exc>>
    /\ UNCHANGED wigvars

\* print(seq)
DbPrintSeq ==
    /\ db_pc = "print_seq"
    /\ db_out' = Append(db_out, Str(db_seq))
    /\ db_pc' = "print_struct"
    /\ UNCHANGED <<db_exists, db_lines, db_start, db_end, db_seq, db_struct, db_exc>>
    /\ UNCHANGED wigvars

\* print(struct)
DbPrintStruct ==
    /\ db_pc = "print_struct"
    /\ db_out' = Append(db_out, Str(db_struct))
    /\ db_pc' = "done"
    /\ UNCHANGED <<db_exists, db_lines, db_start, db_end, db_seq, db_struct, db_exc>>
    /\ UNCHANGED wigvars

\* except Exception as e: print(f"Error: {e}")
DbPrintError ==
    /\ db_pc = "except"
    /\ db_out' = Append(db_out, "Error: " \o db_exc.msg)
    /\ db_pc' = "done"
    /\ UNCHANGED <<db_exists, db_lines, db_start, db_end, db_seq, db_struct, db_exc>>
    /\ UNCHANGED wigvars

NextDb == DbCall \/ DbPrintHeader \/ DbPrintSeq \/ DbPrintStruct \/ DbPrintError

SpecDb == InitDb /\ [][NextDb]_vars

(***************************************************************************)
(* extract_wig_region.py                                                   *)
(***************************************************************************)
WigPath == "region.wig"

StartsWith(s, prefix) ==
    Len(s) >= Len(prefix) /\ SubSeq(s, 1, Len(prefix)) = prefix

TrackPrefix == <<"t", "r", "a", "c", "k">>

VariableStepPrefix == <<"v", "a", "r", "i", "a", "b", "l", "e", "S", "t", "e", "p">>

\* a skip test that knows the "track" lines only
IsTrackLine(line) == StartsWith(line, TrackPrefix)

\* line.startswith("track") or line.startswith("variableStep")
IsMetaLine(line) ==
    StartsWith(line, TrackPrefix) \/ StartsWith(line, VariableStepPrefix)

\* number of leading characters of s that are not whitespace
RECURSIVE TokenLen(_)
TokenLen(s) ==
    IF s = <<>> \/ Head(s) \in Whitespace THEN 0 ELSE 1 + TokenLen(Tail(s))

\* s.split(): the maximal runs of characters that are not whitespace
RECURSIVE Split(_)
Split(s) ==
    LET t == LStrip(s)
    IN  IF t = <<>> THEN <<>>
        ELSE LET n == TokenLen(t)
             IN  <<SubSeq(t, 1, n)>> \o Split(SubSeq(t, n + 1, Len(t)))

Digits == {"0", "1", "2", "3", "4", "5", "6", "7", "8", "9"}

DigitVal(c) ==
    CASE c = "0" -> 0 [] c = "1" -> 1 [] c = "2" -> 2 [] c = "3" -> 3
      [] c = "4" -> 4 [] c = "5" -> 5 [] c = "6" -> 6 [] c = "7" -> 7
      [] c = "8" -> 8 [] c = "9" -> 9

IsDigits(s) == \A i \in DOMAIN s : s[i] \in Digits

RECURSIVE DigitsVal(_)
DigitsVal(s) ==
    IF s = <<>> THEN 0
    ELSE 10 * DigitsVal(SubSeq(s, 1, Len(s) - 1)) + DigitVal(s[Len(s)])

HasSign(tok) == tok # <<>> /\ Head(tok) \in {"+", "-"}

Unsigned(tok) == IF HasSign(tok) THEN Tail(tok) ELSE tok

Signed(tok, n) == IF tok # <<>> /\ Head(tok) = "-" THEN 0 - n ELSE n

\* int(tok): an optional sign and decimal digits
ParseInt(tok) ==
    LET body == Unsigned(tok)
    IN  IF body # <<>> /\ IsDigits(body)
        THEN [ok |-> TRUE, val |-> Signed(tok, DigitsVal(body))]
        ELSE [ok |-> FALSE, val |-> 0]

\* index of the first "." of s, or Len(s) + 1
RECURSIVE DotIndex(_)
DotIndex(s) ==
    IF s = <<>> \/ Head(s) = "." THEN 1 ELSE 1 + DotIndex(Tail(s))

\* the first three digits of a fraction, as thousandths
Thousandths(frac) ==
    LET d(i) == IF i <= Len(frac) THEN DigitVal(frac[i]) ELSE 0
    IN  100 * d(1) + 10 * d(2) + d(3)

\* float(tok) for decimal literals: an optional sign, digits, an optional
\* "." and digits, with a digit somewhere; the value in thousandths
ParseFloat(tok) ==
    LET body == Unsigned(tok)
        k == DotIndex(body)
        whole == SubSeq(body, 1, k - 1)
        frac == SubSeq(body, k + 1, Len(body))
    IN  IF IsDigits(whole) /\ IsDigits(frac) /\ Len(whole) + Len(frac) > 0
        THEN [ok |-> TRUE,
              val |-> Signed(tok, 1000 * DigitsVal(whole) + Thousandths(frac))]
        ELSE [ok |-> FALSE, val |-> 0]

IntError(tok) ==
    [type |-> "ValueError",
     msg |-> "invalid literal for int() with base 10: '" \o Str(tok) \o "'"]

FloatError(tok) ==
    [type |-> "ValueError",
     msg |-> "could not convert string to float: '" \o Str(tok) \o "'"]

\* a test that lets lines of more than two tokens through
HasAtLeastTwoParts(parts) == Len(parts) >= 2

\* len(parts) == 2
HasTwoParts(parts) == Len(parts) = 2

\* reactivities.setdefault(pos, val): the first value of a position stays
PutIfAbsent(table, pos, val) ==
    [p \in DOMAIN table \cup {pos} |->
        IF p \in DOMAIN table THEN table[p] ELSE val]

\* reactivities[pos] = val
Put(table, pos, val) ==
    [p \in DOMAIN table \cup {pos} |-> IF p = pos THEN val ELSE table[p]]

\* one iteration of the loop of parse_wig
ParseLine(table, line) ==
    IF IsMetaLine(line) THEN [kind |-> "ok", table |-> table, exc |-> NoExc]
    ELSE LET parts == Split(Strip(line))
         IN  IF ~HasTwoParts(parts)
             THEN [kind |-> "ok", table |-> table, exc |-> NoExc]
             ELSE LET pos == ParseInt(parts[1])
                      val == ParseFloat(parts[2])
                  IN  IF ~pos.ok
                      THEN [kind |-> "raise", table |-> table,
                            exc |-> IntError(parts[1])]
                      ELSE IF ~val.ok
                      THEN [kind |-> "raise", table |-> table,
                            exc |-> FloatError(parts[2])]
                      ELSE [kind |-> "ok",
                            table |-> Put(table, pos.val, val.val),
                            exc |-> NoExc]

\* the loop of parse_wig over lines, from the table acc
RECURSIVE ParseLines(_, _)
ParseLines(acc, lines) ==
    IF lines = <<>> THEN [kind |-> "ok", table |-> acc, exc |-> NoExc]
    ELSE LET r == ParseLine(acc, Head(lines))
         IN  IF r.kind = "raise" THEN r ELSE ParseLines(r.table, Tail(lines))

parse_wig(lines) == ParseLines(<<>>, lines)

\* a lookup that marks a missing position with -1.0
LookupOrMinusOne(table, pos) ==
    IF pos \in DOMAIN table THEN table[pos] ELSE 0 - 1000

\* reactivities.get(pos, 0.0)
Lookup(table, pos) == IF pos \in DOMAIN table THEN table[pos] ELSE 0

\* the range taken as range(start, end)
extract_region_exclusive(table, start, end) ==
    [i \in 1..Max(0, end - start) |-> Lookup(table, start + i - 1)]

\* [reactivities.get(pos, 0.0) for pos in range(start, end + 1)]
extract_region(table, start, end) ==
    [i \in 1..Max(0, end - start + 1) |-> Lookup(table, start + i - 1)]

Pad3(n) ==
    IF n < 10 THEN "00" \o ToString(n)
    ELSE IF n < 100 THEN "0" \o ToString(n)
    ELSE ToString(n)

Abs(n) == IF n < 0 THEN 0 - n ELSE n

\* f"{val:.2f}" of a value on the grid of hundredths, truncated otherwise
Format2(v) ==
    (IF v < 0 THEN "-" ELSE "") \o ToString(Abs(v) \div 1000) \o "."
        \o (IF (Abs(v) % 1000) \div 10 < 10 THEN "0" ELSE "")
        \o ToString((Abs(v) % 1000) \div 10)

\* f"{val:.3f}" of a value held in thousandths
Format3(v) ==
    (IF v < 0 THEN "-" ELSE "") \o ToString(Abs(v) \div 1000) \o "."
        \o Pad3(Abs(v) % 1000)

\* the lines a .wig file of the model is made of
WigLinePool ==
    { <<"t", "r", "a", "c", "k", " ", "t", "y", "p", "e", "=", "w", "i", "g", "g", "l", "e", "_", "0", "\n">>,
      <<"v", "a", "r", "i", "a", "b", "l", "e", "S", "t", "e", "p", " ", "c", "h", "r", "o", "m", "=", "x", "\n">>,
      <<"1", " ", "0", ".", "1", "0", "\n">>,
      <<"2", " ", "1", ".", "5", "\n">>,
      <<"\n">>,
      <<"3", "\n">>,
      <<"1", " ", "2", " ", "3", "\n">>,
      <<"x", " ", "1", ".", "0", "\n">>,
      <<"0", " ", "2", ".", "2", "5", "\n">>,
      <<" ", "0", "2", " ", "0", ".", "5">> }

WigFiles ==
    { f \in UNION { [1..n -> WigLinePool] : n \in 0..MaxWigLines } : IsReadlines(f) }

WigCoords == (-1)..MaxWigCoord

DbIdle ==
    /\ db_pc = "idle"
    /\ db_exists = FALSE
    /\ db_lines = <<>>
    /\ db_start = 0
    /\ db_end = 0
    /\ db_seq = <<>>
    /\ db_struct = <<>>
    /\ db_exc = NoExc
    /\ db_out = <<>>

InitWig ==
    /\ wig_pc = "read"
    /\ wig_exists \in BOOLEAN
    /\ wig_lines \in WigFiles
    /\ wig_exists = FALSE => wig_lines = <<>>
    /\ wig_start \in WigCoords
    /\ wig_end \in WigCoords
    /\ wig_i = 0
    /\ reactivities = <<>>
    /\ region_vals = <<>>
    /\ wig_k = 0
    /\ wig_exc = NoExc
    /\ wig_out = <<>>
    /\ DbIdle

\* with open(file_path, 'r') as f: lines = f.readlines()
WigReadLines ==
    /\ wig_pc = "read"
    /\ IF wig_exists
       THEN wig_pc' = "loop" /\ wig_exc' = NoExc
       ELSE wig_pc' = "uncaught" /\ wig_exc' = OpenError(WigPath)
    /\ UNCHANGED <<wig_exists, wig_lines, wig_start, wig_end, wig_i,
                   reactivities, region_vals, wig_k, wig_out>>
    /\ UNCHANGED dbvars

\* one iteration of "for line in lines"
WigParseLine ==
    /\ wig_pc = "loop"
    /\ wig_i < Len(wig_lines)
    /\ LET r == ParseLine(reactivities, wig_lines[wig_i + 1])
       IN  IF r.kind = "ok"
           THEN /\ reactivities' = r.table
                /\ wig_i' = wig_i + 1
                /\ UNCHANGED <<wig_pc, wig_exc>>
           ELSE /\ wig_exc' = r.exc
                /\ wig_pc' = "uncaught"
                /\ UNCHANGED <<reactivities, wig_i>>
    /\ UNCHANGED <<wig_exists, wig_lines, wig_start, wig_end, region_vals,
                   wig_k, wig_out>>
    /\ UNCHANGED dbvars

\* return reactivities; region_vals = extract_region(reactivities, start, end)
WigExtract ==
    /\ wig_pc = "loop"
    /\ wig_i = Len(wig_lines)
    /\ region_vals' = extract_region(reactivities, wig_start, wig_end)
    /\ wig_pc' = "print"
    /\ UNCHANGED <<wig_exists, wig_lines, wig_start, wig_end, wig_i,
                   reactivities, wig_k, wig_exc, wig_out>>
    /\ UNCHANGED dbvars

\* one iteration of "for val in region_vals: print(f"{val:.3f}")"
WigPrint ==
    /\ wig_pc = "print"
    /\ wig_k < Len(region_vals)
    /\ wig_out' = Append(wig_out, Format3(region_vals[wig_k + 1]))
    /\ wig_k' = wig_k + 1
    /\ UNCHANGED <<wig_pc, wig_exists, wig_lines, wig_start, wig_end, wig_i,
                   reactivities, region_vals, wig_exc>>
    /\ UNCHANGED dbvars

\* the loop over region_vals is exhausted and main returns
WigExit ==
    /\ wig_pc = "print"
    /\ wig_k = Len(region_vals)
    /\ wig_pc' = "done"
    /\ UNCHANGED <<wig_exists, wig_lines, wig_start, wig_end, wig_i,
                   reactivities, region_vals, wig_k, wig_exc, wig_out>>
    /\ UNCHANGED dbvars

NextWig == WigReadLines \/ WigParseLine \/ WigExtract \/ WigPrint \/ WigExit

SpecWig == InitWig /\ [][NextWig]_vars

Init == InitDb \/ InitWig

Next == NextDb \/ NextWig

Spec == Init /\ [][Next]_vars

(***************************************************************************)
(* Properties of extract_db_region.py                                      *)
(***************************************************************************)
DbCalled == db_pc # "call"

DbSequence == Strip(db_lines[2])

DbStructure == Strip(db_lines[3])

DbValidRange ==
    /\ db_exists
    /\ Len(db_lines) >= 3
    /\ Len(DbStructure) = Len(DbSequence)
    /\ 1 <= db_start
    /\ db_start <= db_end
    /\ db_end <= Len(DbSequence)

\* C1: for a readable .db file of at least 3 lines whose stripped sequence
\* and structure both have length L, and 1 <= start <= end <= L, extraction
\* returns without error two slices of length end - start + 1 whose i-th
\* characters are sequence[start + i - 1] and structure[start + i - 1]; with
\* start = 1 and end = L they are the whole sequence and the whole structure.
C1_InclusiveSlice ==
    (DbCalled /\ DbValidRange) =>
        /\ db_exc = NoExc
        /\ db_pc \in {"print_header", "print_seq", "print_struct", "done"}
        /\ Len(db_seq) = db_end - db_start + 1
        /\ Len(db_struct) = db_end - db_start + 1
        /\ \A i \in 1..(db_end - db_start + 1) :
              /\ db_seq[i] = DbSequence[db_start + i - 1]
              /\ db_struct[i] = DbStructure[db_start + i - 1]
        /\ (db_start = 1 /\ db_end = Len(DbSequence)) =>
              (db_seq = DbSequence /\ db_struct = DbStructure)

C1_Witness ==
    /\ db_pc = "done"
    /\ DbValidRange
    /\ db_start = 2
    /\ db_end = 3
    /\ db_seq = <<"A", "C">>
    /\ db_struct = <<".", ")">>

\* C2: for a readable .db file of at least 3 lines whose stripped sequence
\* has length L, every end > L makes extraction fail, whatever start is,
\* with the message "End position {end} exceeds sequence length {L}." and
\* no slice is returned.
C2_RangeOverflow ==
    (DbCalled /\ db_exists /\ Len(db_lines) >= 3 /\ db_end > Len(DbSequence)) =>
        /\ db_pc \in {"except", "done"}
        /\ db_exc.type # ""
        /\ db_exc.msg = "End position " \o ToString(db_end)
                        \o " exceeds sequence length "
                        \o ToString(Len(DbSequence)) \o "."
        /\ db_seq = <<>>
        /\ db_struct = <<>>
        /\ ">subsequence" \notin { db_out[i] : i \in DOMAIN db_out }

C2_Witness ==
    /\ db_pc = "done"
    /\ db_exists
    /\ Len(db_lines) >= 3
    /\ Len(DbSequence) = 3
    /\ db_end = 4
    /\ db_start = 2
    /\ db_exc.msg = "End position 4 exceeds sequence length 3."

DbShortFile == db_exists /\ Len(db_lines) < 3

\* C3 as stated: a readable file of fewer than 3 lines makes extraction
\* fail with exactly the message "File must have at least three lines:
\* header, sequence, and structure.", before the range check.
C3_ShortFile_Original ==
    (DbCalled /\ DbShortFile) =>
        /\ db_exc.type # ""
        /\ db_exc.msg =
             "File must have at least three lines: header, sequence, and structure."

\* C3 (amended): a readable file of fewer than 3 lines (0, 1 or 2) makes
\* extraction fail, for every start and end, with exactly the message "File
\* must have at least three lines: >header, sequence, and structure."; the
\* check precedes the range check, so it wins when end also exceeds the
\* length of the sequence.
C3_ShortFile ==
    (DbCalled /\ DbShortFile) =>
        /\ db_pc \in {"except", "done"}
        /\ db_exc.type # ""
        /\ db_exc.msg =
             "File must have at least three lines: >header, sequence, and structure."
        /\ db_seq = <<>>
        /\ db_struct = <<>>

C3_Witness ==
    /\ db_pc = "done"
    /\ db_exists
    /\ Len(db_lines) = 2
    /\ db_end > Len(DbSequence)
    /\ db_out = <<"Error: File must have at least three lines: >header, sequence, and structure.">>

DbSuccessShape == <<">subsequence", Str(db_seq), Str(db_struct)>>

DbFailureShape == <<"Error: " \o db_exc.msg>>

\* C4: a run of the db tool never ends by an uncaught error; what it has
\* written to stdout is at every moment a prefix of either the three lines
\* ">subsequence", sequence slice, structure slice (when extraction
\* returned) or the single line "Error: <message>" (when extraction raised),
\* and at the end of the run it is exactly one of the two.
C4_OutputBoundary ==
    /\ db_pc # "uncaught"
    /\ db_exc = NoExc =>
          \E n \in 0..3 : db_out = SubSeq(DbSuccessShape, 1, n)
    /\ db_exc # NoExc =>
          /\ \E n \in 0..1 : db_out = SubSeq(DbFailureShape, 1, n)
          /\ ">subsequence" \notin { db_out[i] : i \in DOMAIN db_out }
    /\ db_pc = "done" =>
          \/ db_exc = NoExc /\ db_out = DbSuccessShape
          \/ db_exc # NoExc /\ db_out = DbFailureShape

C4_Witness ==
    /\ db_pc = "done"
    /\ ~db_exists
    /\ db_exc.type = "FileNotFoundError"
    /\ db_out = <<"Error: [Errno 2] No such file or directory: 'region.db'">>

(***************************************************************************)
(* Properties of extract_wig_region.py                                     *)
(***************************************************************************)
LineTrack == <<"t", "r", "a", "c", "k", " ", "t", "y", "p", "e", "=", "w", "i", "g", "g", "l", "e", "_", "0", "\n">>

LineVariableStep == <<"v", "a", "r", "i", "a", "b", "l", "e", "S", "t", "e", "p", " ", "c", "h", "r", "o", "m", "=", "x", "\n">>

LineOne == <<"1", " ", "0", ".", "1", "0", "\n">>

LineTwo == <<"2", " ", "1", ".", "5", "\n">>

LineTwoAgain == <<" ", "0", "2", " ", "0", ".", "5">>

LineZero == <<"0", " ", "2", ".", "2", "5", "\n">>

LineThreeTokens == <<"1", " ", "2", " ", "3", "\n">>

LineBlank == <<"\n">>

BeginsWithMeta(line) ==
    \/ StartsWith(line, <<"t", "r", "a", "c", "k">>)
    \/ StartsWith(line, <<"v", "a", "r", "i", "a", "b", "l", "e", "S", "t", "e", "p">>)

NotMeta(line) == ~BeginsWithMeta(line)

Tokens(line) == Split(Strip(line))

IsDataLine(line) == NotMeta(line) /\ Len(Tokens(line)) = 2

PositionOf(line) == ParseInt(Tokens(line)[1]).val

ValueOf(line) == ParseFloat(Tokens(line)[2]).val

IsNumericLine(line) ==
    ParseInt(Tokens(line)[1]).ok /\ ParseFloat(Tokens(line)[2]).ok

AllNumeric(lines) ==
    \A j \in DOMAIN lines : IsDataLine(lines[j]) => IsNumericLine(lines[j])

WigExtracted == wig_pc \in {"print", "done"}

RangeLength == IF wig_start <= wig_end THEN wig_end - wig_start + 1 ELSE 0

\* C5: the step that calls extract_region raises nothing, leaves the table
\* as it is and returns a list of length end - start + 1 (empty when
\* start > end) whose i-th element (0-based) is table[start + i] when
\* start + i is a key of the table and 0.0 otherwise.
C5_DenseDefaultFill ==
    [][(wig_pc = "loop" /\ wig_pc' = "print") =>
          /\ reactivities' = reactivities
          /\ wig_exc' = NoExc
          /\ Len(region_vals') = RangeLength
          /\ wig_start > wig_end => region_vals' = <<>>
          /\ \A i \in 0..(RangeLength - 1) :
                region_vals'[i + 1] =
                    IF wig_start + i \in DOMAIN reactivities
                    THEN reactivities[wig_start + i]
                    ELSE 0]_vars

C5_Witness ==
    /\ wig_pc = "done"
    /\ DOMAIN reactivities = {0, 2}
    /\ wig_start = -1
    /\ wig_end = 2
    /\ region_vals = <<0, 2250, 0, 1500>>

WigOutcome ==
    [kind |-> IF wig_pc = "uncaught" THEN "raise" ELSE "ok",
     table |-> reactivities,
     exc |-> wig_exc]

\* C6: an iteration of parse on a line that begins with "track" or
\* "variableStep" raises nothing and leaves the table as it is, whatever
\* the rest of the line holds, and the outcome of parse (the table, or the
\* error of another line) is that of parse on the file without such lines.
C6_MetadataSkipped ==
    [][/\ (/\ wig_pc = "loop"
           /\ wig_i < Len(wig_lines)
           /\ BeginsWithMeta(wig_lines[wig_i + 1])) =>
              /\ reactivities' = reactivities
              /\ wig_exc' = NoExc
              /\ wig_pc' = "loop"
              /\ wig_i' = wig_i + 1
       /\ (wig_exists /\ wig_pc' \in {"print", "uncaught"}) =>
              WigOutcome' = parse_wig(SelectSeq(wig_lines, NotMeta))]_vars

C6_Witness ==
    /\ wig_pc = "done"
    /\ wig_lines = <<LineTrack, LineVariableStep, LineOne>>
    /\ reactivities = [p \in {1} |-> 100]

\* C7: an iteration of parse on a line whose whitespace split does not
\* yield exactly 2 tokens raises nothing, leaves the table as it is and
\* goes on to the next line; when parse returns, the position of every
\* well-formed line of the file, before or after such a line, is a key of
\* the table.
C7_MalformedTolerated ==
    [][/\ (/\ wig_pc = "loop"
           /\ wig_i < Len(wig_lines)
           /\ Len(Tokens(wig_lines[wig_i + 1])) # 2) =>
              /\ reactivities' = reactivities
              /\ wig_exc' = NoExc
              /\ wig_pc' = "loop"
              /\ wig_i' = wig_i + 1
       /\ wig_pc' = "print" =>
              \A j \in DOMAIN wig_lines :
                  (IsDataLine(wig_lines[j]) /\ IsNumericLine(wig_lines[j])) =>
                      PositionOf(wig_lines[j]) \in DOMAIN reactivities']_vars

C7_Witness ==
    /\ wig_pc = "done"
    /\ wig_lines = <<LineOne, LineThreeTokens, LineTwo>>
    /\ reactivities = [p \in {1, 2} |-> IF p = 1 THEN 100 ELSE 1500]

WigRunCompletes ==
    /\ wig_pc # "uncaught"
    /\ wig_exc = NoExc
    /\ wig_pc = "done" =>
          /\ Len(wig_out) = RangeLength
          /\ \A k \in 1..RangeLength :
                (wig_start + k - 1 \notin DOMAIN reactivities) =>
                    wig_out[k] = "0.000"

\* C8 as stated: once the file is read, a run of the wig tool raises no
\* error whatever the file holds, and ends having printed its
\* end - start + 1 lines (none when start > end), "0.000" for a missing
\* position.
C8_NoRaise_Original == wig_exists => WigRunCompletes

\* C8 (amended): once the file is read, and provided int() accepts the
\* first token and float() the second token of every two-token line that
\* is not skipped, a run of the wig tool raises no error and ends having
\* printed its end - start + 1 lines (none when start > end), "0.000" for a
\* missing position; lines of another token count are skipped silently.
C8_NoRaise == wig_exists => (WigRunCompletes \/ ~AllNumeric(wig_lines))

C8_Witness ==
    /\ wig_pc = "done"
    /\ wig_lines = <<LineBlank, LineThreeTokens, LineTwo>>
    /\ wig_start = 1
    /\ wig_end = 2
    /\ wig_out = <<"0.000", "1.500">>

NonPositiveBound == wig_start <= 0 \/ wig_end <= 0

\* C9 as stated: when start or end is zero or negative, extract_region
\* raises nothing and every value it returns is 0.0.
C9_NonPositive_Original ==
    (WigExtracted /\ NonPositiveBound) =>
        /\ wig_exc = NoExc
        /\ \A i \in DOMAIN region_vals : region_vals[i] = 0

\* C9 (amended): when start or end is zero or negative, extract_region
\* raises nothing, and the value it returns for every position that is not
\* a key of the table is 0.0, so that every value is 0.0 when no key of the
\* table lies in start..end; a position of the range that the file records
\* (0, a negative one, or a positive one when only start is non-positive)
\* yields its recorded value.
C9_NonPositive ==
    (WigExtracted /\ NonPositiveBound) =>
        /\ wig_exc = NoExc
        /\ Len(region_vals) = RangeLength
        /\ \A i \in DOMAIN region_vals :
              IF wig_start + i - 1 \in DOMAIN reactivities
              THEN region_vals[i] = reactivities[wig_start + i - 1]
              ELSE region_vals[i] = 0
        /\ (\A p \in DOMAIN reactivities : p < wig_start \/ p > wig_end) =>
              \A i \in DOMAIN region_vals : region_vals[i] = 0

C9_Witness ==
    /\ wig_pc = "done"
    /\ wig_lines = <<LineZero, LineOne>>
    /\ wig_start = -1
    /\ wig_end = 2
    /\ region_vals = <<0, 2250, 100, 0>>

\* the lines of the file that parse_wig turns into entries of the table
DataLines == { j \in DOMAIN wig_lines : IsDataLine(wig_lines[j]) }

\* the file with its lines j and k exchanged
Swapped(j, k) ==
    [i \in DOMAIN wig_lines |->
        IF i = j THEN wig_lines[k]
        ELSE IF i = k THEN wig_lines[j]
        ELSE wig_lines[i]]

\* the state in which parse_wig has just returned its table
WigParseReturned == wig_pc = "print" /\ wig_k = 0

\* C10: when parse returns, a position p is a key of the table exactly when
\* some two-token line of the file that is not skipped has p as its first
\* token, and table[p] is the value of the last such line in file order;
\* when the positions of these lines are distinct, the file with any two of
\* its lines exchanged (and so, the exchanged file being a file too, with
\* its lines in any order) yields the same table.
C10_LastOccurrenceWins ==
    WigParseReturned =>
        LET pos == [j \in DataLines |-> PositionOf(wig_lines[j])]
            isLast == [j \in DataLines |->
                          \A k \in DataLines : k > j => pos[k] # pos[j]]
        IN  /\ DOMAIN reactivities = { pos[j] : j \in DataLines }
            /\ \A j \in DataLines :
                  isLast[j] => reactivities[pos[j]] = ValueOf(wig_lines[j])
            /\ (\A j \in DataLines : isLast[j]) =>
                  \A j, k \in DOMAIN wig_lines :
                      (j < k /\ IsReadlines(Swapped(j, k))) =>
                          parse_wig(Swapped(j, k))
                              = [kind |-> "ok", table |-> reactivities,
                                 exc |-> NoExc]

C10_Witness ==
    /\ wig_pc = "done"
    /\ wig_lines = <<LineOne, LineTwo, LineTwoAgain>>
    /\ reactivities = [p \in {1, 2} |-> IF p = 1 THEN 100 ELSE 500]

====
